---- MODULE Spec2Model ----
(***************************************************************************)
(* A model of NXTensor's extraction engine:                                *)
(*   - nxtensor/core/xarray_channel_extraction.py: the temporal block      *)
(*     partitioner (__build_blocks_structure), the cross-label merger      *)
(*     (__merge_block_structures) and the dispatcher (extract,             *)
(*     __core_extraction);                                                 *)
(*   - src/time_series.py: the bounding box of the region extractor        *)
(*     (XarrayTimeSeries._extract_square_region).                          *)
(***************************************************************************)
EXTENDS Integers, Sequences, FiniteSets, TLC

VARIABLES
    scalarKeys,  \* the installed pandas keys the groups of a single column by the bare value
    tables,      \* extraction_metadata_blocks: label -> DataFrame
    resolution,  \* netcdf_file_time_period
    structures,  \* partitioner results so far: label -> outcome of __build_blocks_structure
    mergedOut,   \* result of __merge_block_structures, or NotMerged
    rxIn,        \* arguments of _extract_square_region and the grid of the open dataset
    rxOut,       \* what _extract_square_region selected
    callback,    \* how the caller's processing callback behaves
    csvSaveOptions, \* the caller's extraction_metadata_block_csv_save_options mapping
    fs,          \* the file system: existing directories and files
    globals,     \* the module-level variables of xarray_channel_extraction.py
    call,        \* the call of extract under way: its arguments, locals and outcome
    procs,       \* per process (0: the caller, 1..: the pool's workers) the task it runs
    log,         \* what the call under way has done so far
    history,     \* per worker count, the outcome of the last call that ended
    calls,       \* number of calls of extract started
    series,      \* the XarrayTimeSeries of a scoped block and the block's progress
    visitor,     \* the ExtractionComputedVariable of the evaluation under way, or the last one
    trail        \* what the scoped block has done so far

partVars == <<scalarKeys, tables, resolution, structures, mergedOut>>
regionVars == <<rxIn, rxOut>>
dispatchVars == <<callback, csvSaveOptions, fs, globals, call, procs, log, history, calls>>
seriesVars == <<series, visitor, trail>>

vars == <<scalarKeys, tables, resolution, structures, mergedOut, rxIn, rxOut,
          callback, csvSaveOptions, fs, globals, call, procs, log, history, calls,
          series, visitor, trail>>

----------------------------------------------------------------------------
(* Bounds and input universes.                                             *)

\* Largest number of rows of a metadata table handed to the partitioner.
MaxRows == 2

\* The labels of the unit tests.
Labels == {"cyclone", "no_cyclone"}

\* (year, month, day, hour) of the samples the tables are made of.
TimeValues ==
    { <<2000, 9, 1, 0>>, <<2000, 10, 1, 0>>, <<2000, 10, 1, 6>>, <<1999, 10, 2, 0>> }

\* A value of netcdf_file_time_period that TimeResolution.KEYS does not hold.
UnknownResolution == "minute"

\* Coordinates are whole numbers of the finest grid step. The latitude axis of the
\* dataset spans -GridLatMax..GridLatMax, its longitude axis 0..GridLonMax.
GridLatMax == 4
GridLonMax == 7

\* Largest grid resolution and largest half-extent, in the same unit.
MaxGridResolution == 2
MaxHalfFrame == 3

\* Largest nb_workers passed to extract, and how many calls of extract a run makes.
MaxWorkers == 2
MaxCalls == 2

\* Largest number of calls of extract_square_region made inside one scoped block.
MaxExtractions == 2

----------------------------------------------------------------------------
(* Generic helpers.                                                        *)

Range(s) == { s[i] : i \in 1..Len(s) }

SeqsUpTo(S, n) == UNION { [1..k -> S] : k \in 0..n }

Reverse(s) == [i \in 1..Len(s) |-> s[Len(s) + 1 - i]]

RECURSIVE SetToSortedSeq(_)
\* The ascending sequence of a finite set of integers.
SetToSortedSeq(S) ==
    IF S = {} THEN <<>>
    ELSE LET m == CHOOSE x \in S : \A y \in S : x <= y
         IN  <<m>> \o SetToSortedSeq(S \ {m})

----------------------------------------------------------------------------
(* Data model: DataFrame, TimeResolution, DBMetadataMapping.               *)

\* TimeResolution.KEYS, most significant first.
KEYS == <<"year", "month", "day", "hour">>

Resolutions == Range(KEYS) \cup {UnknownResolution}

\* create_db_metadata_mapping(year=..., month=..., day=..., hour=..., lat=..., lon=...):
\* canonical name -> column name of the label's table.
DbMetadataMapping ==
    ("year" :> "yr") @@ ("month" :> "mo") @@ ("day" :> "dy") @@ ("hour" :> "hr")
    @@ ("lat" :> "latitude") @@ ("lon" :> "longitude")

\* A column of the table that the mapping does not name.
ExtraColumn == "wind"

\* One row of a table read by pd.read_csv(header=0): its index label is its position.
ReadRow(pos, tv) ==
    [index |-> pos,
     data  |-> ("yr" :> tv[1]) @@ ("mo" :> tv[2]) @@ ("dy" :> tv[3]) @@ ("hr" :> tv[4])
               @@ ("latitude" :> 40) @@ ("longitude" :> 312) @@ (ExtraColumn :> 7)]

\* pd.read_csv: a DataFrame with a RangeIndex 0..n-1.
ReadCsv(tvs) == [i \in 1..Len(tvs) |-> ReadRow(i - 1, tvs[i])]

DataFrames == { ReadCsv(tvs) : tvs \in SeqsUpTo(TimeValues, MaxRows) }

\* Whether pandas keys the groups of a single grouping column by scalars shows at the
\* resolution with a single grouping column only.
ScalarKeysChoices(res) == IF res = KEYS[1] THEN BOOLEAN ELSE {FALSE}

----------------------------------------------------------------------------
(* The values of the state before an operation has run.                    *)

\* No structure built yet for a label, and nothing merged yet.
NotBuilt == [ok |-> FALSE, error |-> "not built", msg |-> <<>>]
NotMerged == [done |-> FALSE, val |-> <<>>]

\* The partitioner and the merger are not in use.
PartitionIdle ==
    /\ scalarKeys = FALSE
    /\ tables = [l \in Labels |-> <<>>]
    /\ resolution = "year"
    /\ structures = [l \in Labels |-> NotBuilt]
    /\ mergedOut = NotMerged

\* No region extraction has run.
NoRegionInput == [lat |-> 0]
NoRegion == [done |-> FALSE]

\* The region extractor is not in use.
RegionIdle == rxIn = NoRegionInput /\ rxOut = NoRegion

\* No time series has been created and no computed variable evaluated.
NoSeries == [pc |-> "none"]
NoVisitor == [stage |-> "none", data_array_mapping |-> <<>>]
NoTrail == [requests |-> 0, extractions |-> <<>>, results |-> <<>>]

\* The time series is not in use.
SeriesIdle == series = NoSeries /\ visitor = NoVisitor /\ trail = NoTrail

----------------------------------------------------------------------------
(* __build_blocks_structure                                                *)

\* A faulty lookup in the manner of str.find: -1 instead of ValueError.
ListIndexNoError(list, x) ==
    IF x \in Range(list)
    THEN [ok |-> TRUE, val |-> (CHOOSE i \in 1..Len(list) : list[i] = x) - 1]
    ELSE [ok |-> TRUE, val |-> -1]

\* list.index: the 0-based position of the first occurrence, or ValueError.
ListIndex(list, x) ==
    IF x \in Range(list)
    THEN [ok |-> TRUE, val |-> (CHOOSE i \in 1..Len(list) :
                                    list[i] = x /\ \A j \in 1..(i - 1) : list[j] # x) - 1]
    ELSE [ok |-> FALSE, val |-> -1]

\* The tuple of a row's values in the grouping columns.
GroupKey(row, columns) == [i \in 1..Len(columns) |-> row.data[columns[i]]]

\* A faulty grouping that lists the positions of a group last row first.
GroupbyIndicesDescending(df, columns) ==
    LET keys == { GroupKey(df[i], columns) : i \in 1..Len(df) }
    IN  [k \in keys |->
            Reverse(SetToSortedSeq({ i - 1 : i \in { j \in 1..Len(df) :
                                                      GroupKey(df[j], columns) = k } }))]

\* DataFrame.groupby(columns).indices: group key -> ascending positions (0-based).
GroupbyIndices(df, columns) ==
    LET keys == { GroupKey(df[i], columns) : i \in 1..Len(df) }
    IN  [k \in keys |->
            SetToSortedSeq({ i - 1 : i \in { j \in 1..Len(df) : GroupKey(df[j], columns) = k } })]

\* DataFrame.rename(reverse_metadata_mapping, axis='columns'): the mapped columns take
\* their canonical names, the other columns keep theirs.
RenameColumns(df, mapping) ==
    LET mapped == { mapping[k] : k \in DOMAIN mapping } IN
    [i \in 1..Len(df) |->
        [index |-> df[i].index,
         data  |-> [c \in (DOMAIN df[i].data \ mapped) \cup DOMAIN mapping |->
                        IF c \in DOMAIN mapping THEN df[i].data[mapping[c]]
                        ELSE df[i].data[c]]]]

\* renamed_df[db_metadata_mapping.keys()]: only the columns of interest.
RestrictColumns(df, columns) ==
    [i \in 1..Len(df) |->
        [index |-> df[i].index, data |-> [c \in columns |-> df[i].data[c]]]]

\* A faulty lookup that stops after the first requested label.
LocFirstLabelOnly(df, labels) ==
    IF labels = <<>> THEN <<>>
    ELSE SelectSeq(df, LAMBDA r : r.index = Head(labels))

RECURSIVE Loc(_, _)
\* DataFrame.loc[labels]: for each requested label in turn, the rows carrying it.
Loc(df, labels) ==
    IF labels = <<>> THEN <<>>
    ELSE SelectSeq(df, LAMBDA r : r.index = Head(labels)) \o Loc(df, Tail(labels))

\* The ConfigurationError message: f"'{netcdf_file_time_period}' is not a known time resolution".
ConfigurationErrorMsg(res) == <<"'", res, "' is not a known time resolution">>

BuildBlocksStructure(dataframe, db_metadata_mapping, netcdf_file_time_period) ==
    LET resolution_degree == ListIndex(KEYS, netcdf_file_time_period) IN
    IF ~resolution_degree.ok
    THEN [ok |-> FALSE, error |-> "ConfigurationError",
          msg |-> ConfigurationErrorMsg(netcdf_file_time_period)]
    ELSE
      LET list_keys == SubSeq(KEYS, 1, resolution_degree.val + 1)
          list_column_names == [i \in 1..Len(list_keys) |-> db_metadata_mapping[list_keys[i]]]
          indices == GroupbyIndices(dataframe, list_column_names)
          renamed_df == RenameColumns(dataframe, db_metadata_mapping)
          restricted_renamed_df == RestrictColumns(renamed_df, DOMAIN db_metadata_mapping)
      IN  [ok |-> TRUE,
           val |-> [index \in DOMAIN indices |-> Loc(restricted_renamed_df, indices[index])]]

----------------------------------------------------------------------------
(* __merge_block_structures                                                *)

\* A faulty merge that joins on the Periods every label has (an inner join).
MergeInnerJoin(structs) ==
    LET periods == { p \in UNION { DOMAIN structs[l] : l \in DOMAIN structs } :
                        \A l \in DOMAIN structs : p \in DOMAIN structs[l] }
    IN  [period \in periods |-> [label_id \in DOMAIN structs |-> structs[label_id][period]]]

MergeBlockStructures(structs) ==
    LET periods == UNION { DOMAIN structs[l] : l \in DOMAIN structs }
    IN  [period \in periods |->
            [label_id \in { l \in DOMAIN structs : period \in DOMAIN structs[l] } |->
                structs[label_id][period]]]

----------------------------------------------------------------------------
(* Python values, as far as extract handles them.                          *)

\* A value is a record whose one field names its type.
PyInt(n) == [int |-> n]
PyStr(str) == [str |-> str]
\* A tuple or a list: the sequence of its items.
PyTuple(items) == [tuple |-> items]
\* A dict: its (key, value) pairs in insertion order.
PyDict(pairs) == [dict |-> pairs]

\* The object that keys a group in groupby(list_column_names).indices, and so a Block and
\* a merged unit: the tuple of the values in the grouping columns; for a single grouping
\* column the bare value with the pandas versions that key such groups by scalars.
PyPeriod(period) ==
    IF scalarKeys /\ Len(period) = 1 THEN PyInt(period[1])
    ELSE PyTuple([i \in 1..Len(period) |-> PyInt(period[i])])

\* What iterating over a tuple, a list or a dict yields: a dict yields its keys.
PyIter(v) ==
    IF DOMAIN v = {"dict"} THEN [i \in 1..Len(v.dict) |-> v.dict[i][1]] ELSE v.tuple

\* The number of characters of the label identifiers.
StrLen(str) == IF str = "cyclone" THEN 7 ELSE IF str = "no_cyclone" THEN 10 ELSE 0

\* len() of what the dispatcher iterates over.
PyLen(v) ==
    IF DOMAIN v = {"str"} THEN StrLen(v.str)
    ELSE IF DOMAIN v = {"int"} THEN 0
    ELSE Len(PyIter(v))

\* dict(iterable): each element must itself be iterable (TypeError) and hold exactly two
\* items, a key and a value (ValueError); the first element at fault decides. Of two
\* elements with the same key the later one stays.
PyDictOf(elements) ==
    LET bad == { i \in 1..Len(elements) :
                   DOMAIN elements[i] = {"int"} \/ PyLen(elements[i]) # 2 }
    IN
    IF bad # {}
    THEN LET first == CHOOSE i \in bad : \A j \in bad : i <= j
         IN  [ok |-> FALSE,
              error |-> IF DOMAIN elements[first] = {"int"} THEN "TypeError" ELSE "ValueError",
              val |-> {}]
    ELSE LET last == { i \in 1..Len(elements) :
                         \A j \in (i + 1)..Len(elements) :
                             PyIter(elements[j])[1] # PyIter(elements[i])[1] }
         IN  [ok |-> TRUE, error |-> "",
              val |-> { [key |-> PyIter(elements[i])[1], value |-> PyIter(elements[i])[2]] :
                           i \in last }]

----------------------------------------------------------------------------
(* Paths and the file system.                                              *)

\* A directory path is the sequence of its components. A file path is its directory,
\* its base name and its extension.
Dirname(dir) == SubSeq(dir, 1, Len(dir) - 1)

\* fu.NAME_SEPARATOR and the FileExtension values.
NAME_SEPARATOR == "_"
CSV_FILE_EXTENSION == "csv"
HDF5_FILE_EXTENSION == "h5"
NoExtension == ""

\* path.join(file_prefix_path, label_id, f"{period}{fu.NAME_SEPARATOR}")
SpecificLabelFilePrefixPath(file_prefix_path, label_id, period) ==
    [dir |-> file_prefix_path \o <<label_id>>, base |-> <<period, NAME_SEPARATOR>>,
     ext |-> NoExtension]

\* f"{specific_label_file_prefix_path}.{extension}"
WithExtension(file_path, extension) == [file_path EXCEPT !.ext = extension]

\* os.makedirs(dir, exist_ok=True): the directory and all its ancestors.
Makedirs(dir) == { SubSeq(dir, 1, k) : k \in 0..Len(dir) }

\* Line 107: the directory the dispatcher creates, path.dirname(file_prefix_path).
DirectoryToMake(file_prefix_path, label_id) == Dirname(file_prefix_path)

\* The path prefix the callback returns.
FilePrefixPath == <<"data", "channel", "era5">>

\* The directory of a label's files under the prefix the callback returns.
LabelDir(label_id) == FilePrefixPath \o <<label_id>>

----------------------------------------------------------------------------
(* The caller's inputs to extract.                                         *)

\* The tables of the unit tests in small: the cyclone table has rows of 2000-10 only,
\* the no_cyclone table rows of 2000-09 and of 2000-10; either may also be empty.
SampleTables ==
    [cyclone    : { ReadCsv(<<>>), ReadCsv(<< <<2000, 10, 1, 0>> >>) },
     no_cyclone : { ReadCsv(<<>>), ReadCsv(<< <<2000, 9, 1, 0>>, <<2000, 10, 1, 0>> >>) }]

\* The order of the labels in extraction_metadata_blocks.
LabelOrder == <<"cyclone", "no_cyclone">>

\* The months of the sample tables, and no month at all.
SampleMonths == {9, 10}
NoMonth == 0

\* DEFAULT_CSV_SAVE_OPTIONS, its line terminator the two characters backslash and n.
DEFAULT_CSV_SAVE_OPTIONS ==
    [separator |-> ",", encoding |-> "utf8", line_terminator |-> "\\n"]

\* Options of a caller who wants Windows line endings.
CrLfCsvSaveOptions ==
    [separator |-> ";", encoding |-> "utf8", line_terminator |-> "\r\n"]

CsvSaveOptionChoices == {DEFAULT_CSV_SAVE_OPTIONS, CrLfCsvSaveOptions}

\* Lines 76-81: a copy of the options with the escaped default line terminator replaced
\* by a line feed; other options are passed on as they are.
FixLineTerminator(options) ==
    IF "line_terminator" \in DOMAIN options
       /\ options.line_terminator = DEFAULT_CSV_SAVE_OPTIONS.line_terminator
    THEN [options EXCEPT !.line_terminator = "\n"]
    ELSE options

\* A faulty test of nb_workers that keeps one worker in the caller's process.
UsesPoolFromTwo(workers) == workers > 1

\* Line 88, "if nb_workers:": any worker count but 0 takes the pool.
UsesPool(workers) == workers # 0

----------------------------------------------------------------------------
(* The processing callback.                                                *)

\* The callback opens the source files of the Period: it raises when a sample of the
\* Period falls in the month whose file cannot be read.
CallbackRaises(cb, period, blocks) ==
    \E label_id \in DOMAIN blocks : \E i \in 1..Len(blocks[label_id]) :
        blocks[label_id][i].data["month"] = cb.failMonth

\* The array the callback extracts for a label.
DataBlock(period, label_id) == [values |-> <<"tensor", period, label_id>>]

\* extracted_data_blocks: for each label of the unit, in the order of the labels, its
\* array; either the Dict[str, xr.DataArray] of the signature or a list of pairs.
ExtractedDataBlocks(cb, period, blocks) ==
    LET labels == SelectSeq(LabelOrder, LAMBDA l : l \in DOMAIN blocks)
        pairs == [i \in 1..Len(labels) |->
                    <<PyStr(labels[i]), DataBlock(period, labels[i])>>]
    IN  IF cb.returnsPairs
        THEN PyTuple([i \in 1..Len(pairs) |-> PyTuple(pairs[i])])
        ELSE PyDict(pairs)

----------------------------------------------------------------------------
(* The state of the dispatcher before and between calls.                   *)

ProcIds == 0..MaxWorkers
CallerProc == 0

IdleTask == [stage |-> "idle", period |-> <<>>, prefix |-> <<>>, todo |-> <<>>,
             result |-> <<>>]

NoFailure == [error |-> "", period |-> <<>>]
NoOutcome == [status |-> "none", error |-> "", val |-> {}]

IdleCall ==
    [pc |-> "idle", nb_workers |-> 0, options |-> DEFAULT_CSV_SAVE_OPTIONS,
     pending |-> <<>>, tmp_bound |-> FALSE, tmp_result |-> PyTuple(<<>>),
     results |-> <<>>, failure |-> NoFailure, outcome |-> NoOutcome, pool |-> FALSE,
     start_method |-> "fork"]

EmptyLog ==
    [invocations |-> <<>>, made |-> {}, writeDirs |-> {}, written |-> {}, ranBy |-> {},
     failed |-> {}, read |-> {}]

\* The module-level variables are declared but not assigned when the module is loaded.
UnsetGlobals == [assigned |-> FALSE, function |-> 0, options |-> DEFAULT_CSV_SAVE_OPTIONS]

\* How multiprocessing starts the workers of a Pool: "fork" (the default on Linux before
\* Python 3.14) copies the caller's process, "spawn" (Windows, macOS from Python 3.8)
\* starts a fresh interpreter that imports the module again.
StartMethods == {"fork", "spawn"}

\* The module-level variables as the process that runs the tasks of the call sees them:
\* the caller and a forked worker see what extract assigned (lines 83-86), a spawned
\* worker has the freshly imported module, where lines 40-42 only declare them.
WorkerGlobals(c, assigned) ==
    IF c.pool /\ c.start_method = "spawn" THEN UnsetGlobals ELSE assigned

NoCall == [called |-> FALSE, outcome |-> NoOutcome, written |-> {},
           options |-> DEFAULT_CSV_SAVE_OPTIONS]

\* The dispatcher is not in use.
DispatchIdle ==
    /\ callback = [returnsPairs |-> TRUE, failMonth |-> NoMonth]
    /\ csvSaveOptions = DEFAULT_CSV_SAVE_OPTIONS
    /\ fs = [dirs |-> {}, files |-> {}]
    /\ globals = UnsetGlobals
    /\ call = IdleCall
    /\ procs = [p \in ProcIds |-> IdleTask]
    /\ log = EmptyLog
    /\ history = [w \in 0..MaxWorkers |-> NoCall]
    /\ calls = 0

----------------------------------------------------------------------------
(* XarrayTimeSeries._extract_square_region                                 *)

\* The grid points of an axis: the multiples of its resolution in lo..hi, ascending.
AxisPoints(lo, hi, res) == SetToSortedSeq({ x \in lo..hi : x % res = 0 })

\* self.dataset[lat_attribute_name]: stored ascending or descending.
LatSeries(res, descending) ==
    IF descending THEN Reverse(AxisPoints(-GridLatMax, GridLatMax, res))
    ELSE AxisPoints(-GridLatMax, GridLatMax, res)

LonSeries(res) == AxisPoints(0, GridLonMax, res)

\* CoordinateUtils.round_nearest: the grid sample nearest to the value (half steps up).
RoundNearest(value, res) == res * ((2 * value + res) \div (2 * res))

\* .sel(axis=slice(start, stop)) on a monotonic axis: label slicing, both ends included,
\* in the direction of the axis.
SelSlice(axis, start, stop) ==
    IF Len(axis) > 1 /\ axis[1] > axis[Len(axis)]
    THEN SelectSeq(axis, LAMBDA x : start >= x /\ x >= stop)
    ELSE SelectSeq(axis, LAMBDA x : start <= x /\ x <= stop)

\* A faulty bounding box that never swaps lat_min and lat_max.
SquareRegionBoundsNoSwap(lat, lon, half_lat_frame, half_lon_frame, lat_resolution, lon_resolution, lat_series) ==
    [lat_min |-> lat - half_lat_frame + lat_resolution,
     lat_max |-> lat + half_lat_frame,
     lon_min |-> lon - half_lon_frame,
     lon_max |-> lon + half_lon_frame - lon_resolution]

\* Lines 93-108: the bounds of the selection, swapped for a descending latitude axis.
SquareRegionBounds(lat, lon, half_lat_frame, half_lon_frame, lat_resolution, lon_resolution, lat_series) ==
    LET lat_min == lat - half_lat_frame + lat_resolution
        lat_max == lat + half_lat_frame
        lon_min == lon - half_lon_frame
        lon_max == lon + half_lon_frame - lon_resolution
    IN  IF lat_series[1] > lat_series[Len(lat_series)]
        THEN [lat_min |-> lat_max, lat_max |-> lat_min, lon_min |-> lon_min, lon_max |-> lon_max]
        ELSE [lat_min |-> lat_min, lat_max |-> lat_max, lon_min |-> lon_min, lon_max |-> lon_max]

\* _extract_square_region for a single-level or multi-level variable: the latitudes and
\* longitudes selected, and the shape of the array returned once the coordinates are dropped.
ExtractSquareRegionDirect(in) ==
    LET lat == IF in.has_to_round THEN RoundNearest(in.lat, in.lat_resolution) ELSE in.lat
        lon == IF in.has_to_round THEN RoundNearest(in.lon, in.lon_resolution) ELSE in.lon
        lat_series == LatSeries(in.lat_resolution, in.descending)
        b == SquareRegionBounds(lat, lon, in.half_lat_frame, in.half_lon_frame,
                                in.lat_resolution, in.lon_resolution, lat_series)
        latitude == SelSlice(lat_series, b.lat_min, b.lat_max)
        longitude == SelSlice(LonSeries(in.lon_resolution), b.lon_min, b.lon_max)
    IN  [done |-> TRUE, bounds |-> b, latitude |-> latitude, longitude |-> longitude,
         shape |-> <<Len(latitude), Len(longitude)>>]

RegionInputs ==
    [lat : (-GridLatMax)..GridLatMax, lon : 0..GridLonMax,
     half_lat_frame : 1..MaxHalfFrame, half_lon_frame : 1..MaxHalfFrame,
     lat_resolution : 1..MaxGridResolution, lon_resolution : 1..MaxGridResolution,
     descending : BOOLEAN, has_to_round : BOOLEAN]

InitRegion ==
    /\ rxIn \in RegionInputs
    /\ rxOut = NoRegion
    /\ PartitionIdle
    /\ DispatchIdle
    /\ SeriesIdle

\* One call of _extract_square_region on the open dataset.
ExtractSquareRegion ==
    /\ ~rxOut.done
    /\ rxOut' = ExtractSquareRegionDirect(rxIn)
    /\ UNCHANGED <<rxIn, scalarKeys, tables, resolution, structures, mergedOut>>
    /\ UNCHANGED dispatchVars
    /\ UNCHANGED seriesVars

NextRegion == ExtractSquareRegion

SpecRegion == InitRegion /\ [][NextRegion]_vars

----------------------------------------------------------------------------
(* Properties of the region extractor (SpecRegion).                        *)

OnGrid(in) ==
    /\ in.lat % in.lat_resolution = 0
    /\ in.lon % in.lon_resolution = 0
    /\ in.lat \in Range(LatSeries(in.lat_resolution, FALSE))
    /\ in.lon \in Range(LonSeries(in.lon_resolution))

\* The window lat-h+r..lat+h by lon-h..lon+h-r lies inside the grid.
WindowInGrid(in) ==
    LET lats == Range(LatSeries(in.lat_resolution, FALSE))
        lons == Range(LonSeries(in.lon_resolution))
    IN  /\ \E x \in lats : x <= in.lat - in.half_lat_frame + in.lat_resolution
        /\ \E x \in lats : in.lat + in.half_lat_frame <= x
        /\ \E x \in lons : x <= in.lon - in.half_lon_frame
        /\ \E x \in lons : in.lon + in.half_lon_frame - in.lon_resolution <= x

\* The claim as stated: 2h a whole multiple of r and the centre on a grid point are
\* enough for 2h/r points to be selected on each axis.
C10_Original ==
    (/\ rxOut.done
     /\ OnGrid(rxIn)
     /\ (2 * rxIn.half_lat_frame) % rxIn.lat_resolution = 0
     /\ (2 * rxIn.half_lon_frame) % rxIn.lon_resolution = 0) =>
        /\ rxOut.shape[1] = (2 * rxIn.half_lat_frame) \div rxIn.lat_resolution
        /\ rxOut.shape[2] = (2 * rxIn.half_lon_frame) \div rxIn.lon_resolution

\* C10 (amended): for a half-extent h that is a whole multiple of the grid resolution r
\* and a centre on a grid point whose window lies inside the grid, the bounds select
\* exactly 2h/r points on each axis, for an ascending and for a descending latitude axis.
C10_RegionShape ==
    (/\ rxOut.done
     /\ OnGrid(rxIn)
     /\ WindowInGrid(rxIn)
     /\ rxIn.half_lat_frame % rxIn.lat_resolution = 0
     /\ rxIn.half_lon_frame % rxIn.lon_resolution = 0) =>
        /\ rxOut.shape[1] = (2 * rxIn.half_lat_frame) \div rxIn.lat_resolution
        /\ rxOut.shape[2] = (2 * rxIn.half_lon_frame) \div rxIn.lon_resolution

\* A region of more than one point per axis was extracted from a descending grid, its
\* half-extents whole multiples of the resolutions and its window inside the grid.
C10_Witness ==
    /\ rxOut.done
    /\ OnGrid(rxIn)
    /\ WindowInGrid(rxIn)
    /\ rxIn.descending
    /\ rxIn.lat_resolution = 2 /\ rxIn.half_lat_frame = 2
    /\ rxIn.lon_resolution = 1 /\ rxIn.half_lon_frame = 2
    /\ rxOut.shape = <<2, 4>>

----------------------------------------------------------------------------
(* The partitioner and the merger applied to bounded inputs.               *)

InitPartition ==
    /\ tables \in [Labels -> DataFrames]
    /\ resolution \in Resolutions
    /\ scalarKeys \in ScalarKeysChoices(resolution)
    /\ structures = [l \in Labels |-> NotBuilt]
    /\ mergedOut = NotMerged
    /\ RegionIdle
    /\ DispatchIdle
    /\ SeriesIdle

\* One iteration of the loop of extract (lines 69-72) for one label. With inplace the
\* caller's table has its columns renamed, unless the resolution is refused first.
BuildBlocks(label, inplace) ==
    /\ structures[label] = NotBuilt
    /\ structures' = [structures EXCEPT ![label] =
                        BuildBlocksStructure(tables[label], DbMetadataMapping, resolution)]
    /\ tables' = IF inplace /\ structures'[label].ok
                 THEN [tables EXCEPT ![label] = RenameColumns(tables[label], DbMetadataMapping)]
                 ELSE tables
    /\ UNCHANGED <<scalarKeys, resolution, mergedOut>>
    /\ UNCHANGED regionVars
    /\ UNCHANGED seriesVars
    /\ UNCHANGED dispatchVars

\* Line 74 of extract, once every label's structure is built.
Merge ==
    /\ mergedOut = NotMerged
    /\ \A l \in Labels : structures[l].ok
    /\ mergedOut' = [done |-> TRUE,
                     val |-> MergeBlockStructures([l \in Labels |-> structures[l].val])]
    /\ UNCHANGED <<scalarKeys, tables, resolution, structures>>
    /\ UNCHANGED regionVars
    /\ UNCHANGED seriesVars
    /\ UNCHANGED dispatchVars

NextPartition ==
    \/ \E label \in Labels, inplace \in BOOLEAN : BuildBlocks(label, inplace)
    \/ Merge

SpecPartition == InitPartition /\ [][NextPartition]_vars

----------------------------------------------------------------------------
(* Properties of the partitioner and the merger (SpecPartition).           *)

SupportedResolutions == {"year", "month", "day", "hour"}

\* The row of a Block that a row of the table becomes: same index, canonical columns
\* (the table's columns carry the canonical names already after an in-place renaming).
CanonicalRow(row) ==
    [index |-> row.index,
     data  |-> [k \in DOMAIN DbMetadataMapping |->
                    IF k \in DOMAIN row.data THEN row.data[k]
                    ELSE row.data[DbMetadataMapping[k]]]]

\* How many times a row occurs in all the Blocks of a structure together.
Occurrences(blocks, row) ==
    Cardinality({ <<p, i>> \in UNION { {p} \X (1..Len(blocks[p])) : p \in DOMAIN blocks } :
                    blocks[p][i] = row })

\* C4: for every table and every supported resolution the Blocks partition the table's
\* rows: each row of the table occurs exactly once in all the Blocks together, and every
\* row of a Block is a row of the table.
C4_BlocksPartitionRows ==
    \A l \in Labels :
        (structures[l] # NotBuilt /\ resolution \in SupportedResolutions) =>
            /\ structures[l].ok
            /\ \A i \in 1..Len(tables[l]) :
                    Occurrences(structures[l].val, CanonicalRow(tables[l][i])) = 1
            /\ \A p \in DOMAIN structures[l].val :
                    \A j \in 1..Len(structures[l].val[p]) :
                        \E i \in 1..Len(tables[l]) :
                            structures[l].val[p][j] = CanonicalRow(tables[l][i])

\* A table of two rows has been partitioned into two Blocks.
C4_Witness ==
    \E l \in Labels :
        /\ structures[l].ok
        /\ Len(tables[l]) = 2
        /\ Cardinality(DOMAIN structures[l].val) = 2

\* C5: the merged result's keys are the union of the labels' Periods; a label is a key
\* of a Period's map exactly when its partition has a Block for that Period, and the
\* value is that Block; no Period maps to an empty label map.
C5_MergeIsOuterJoin ==
    mergedOut.done =>
        /\ DOMAIN mergedOut.val = UNION { DOMAIN structures[l].val : l \in Labels }
        /\ \A p \in DOMAIN mergedOut.val :
              /\ DOMAIN mergedOut.val[p] # {}
              /\ DOMAIN mergedOut.val[p] \subseteq Labels
              /\ \A l \in Labels :
                    /\ (l \in DOMAIN mergedOut.val[p]) <=> (p \in DOMAIN structures[l].val)
                    /\ (l \in DOMAIN mergedOut.val[p]) =>
                            mergedOut.val[p][l] = structures[l].val[p]

\* The merge of the unit test: a Period that only one of the two labels has, and a
\* Period that both have.
C5_Witness ==
    /\ mergedOut.done
    /\ \E p \in DOMAIN mergedOut.val : DOMAIN mergedOut.val[p] = {"no_cyclone"}
    /\ \E p \in DOMAIN mergedOut.val : DOMAIN mergedOut.val[p] = Labels

\* C9: with a resolution that is not year, month, day or hour the partitioner fails
\* with a ConfigurationError whose message holds the resolution, and returns no Block
\* map; with a supported resolution it raises no ConfigurationError.
C9_UnknownResolutionRaises ==
    \A l \in Labels :
        structures[l] # NotBuilt =>
            /\ resolution \notin SupportedResolutions =>
                    /\ ~structures[l].ok
                    /\ structures[l].error = "ConfigurationError"
                    /\ resolution \in Range(structures[l].msg)
                    /\ "val" \notin DOMAIN structures[l]
            /\ resolution \in SupportedResolutions => structures[l].ok

\* The partitioner has been called with an unknown resolution on a table with rows.
C9_Witness ==
    \E l \in Labels :
        /\ structures[l] # NotBuilt
        /\ resolution = UnknownResolution
        /\ Len(tables[l]) > 0

\* The values of a row in the time fields from the year down to the resolution.
TimePrefix(row, res) ==
    LET n == CHOOSE i \in 1..Len(KEYS) : KEYS[i] = res
    IN  [i \in 1..n |-> CanonicalRow(row).data[KEYS[i]]]

\* Both rows are rows of one Block.
InSameBlock(blocks, r1, r2) ==
    \E p \in DOMAIN blocks : r1 \in Range(blocks[p]) /\ r2 \in Range(blocks[p])

\* C13: for a supported resolution two rows of the table are in the same Block exactly
\* when they agree on every time field from the year down to the resolution, the
\* Periods are exactly the prefixes of the table's rows, and each Block is keyed by the
\* tuple of its rows' prefix values.
C13_Original ==
    \A l \in Labels :
        (structures[l] # NotBuilt /\ resolution \in SupportedResolutions) =>
            /\ structures[l].ok
            /\ \A i, j \in 1..Len(tables[l]) :
                   InSameBlock(structures[l].val,
                               CanonicalRow(tables[l][i]), CanonicalRow(tables[l][j]))
                   <=> TimePrefix(tables[l][i], resolution) = TimePrefix(tables[l][j], resolution)
            /\ DOMAIN structures[l].val =
                   { TimePrefix(tables[l][i], resolution) : i \in 1..Len(tables[l]) }
            /\ \A p \in DOMAIN structures[l].val :
                   \A k \in 1..Len(structures[l].val[p]) :
                       LET prefix == TimePrefix(structures[l].val[p][k], resolution)
                       IN  PyPeriod(p) = PyTuple([i \in 1..Len(prefix) |-> PyInt(prefix[i])])

\* C14: within every Block the rows are in the order they have in the source table and
\* each row carries the index it had there, being the table's row at that position; the
\* merged units hold the Blocks as the partitioner made them.
C14_OrderAndIndexPreserved ==
    /\ \A l \in Labels :
           structures[l].ok =>
               \A p \in DOMAIN structures[l].val :
                   LET block == structures[l].val[p] IN
                   /\ \A k \in 1..Len(block) :
                          /\ block[k].index + 1 \in 1..Len(tables[l])
                          /\ block[k] = CanonicalRow(tables[l][block[k].index + 1])
                   /\ \A j, k \in 1..Len(block) : j < k => block[j].index < block[k].index
    /\ mergedOut.done =>
           \A p \in DOMAIN mergedOut.val : \A l \in DOMAIN mergedOut.val[p] :
               mergedOut.val[p][l] = structures[l].val[p]

\* A Block of two rows, the later month first as in the table, is part of a merged unit.
C14_Witness ==
    /\ mergedOut.done
    /\ \E l \in Labels : \E p \in DOMAIN mergedOut.val :
           /\ l \in DOMAIN mergedOut.val[p]
           /\ Len(mergedOut.val[p][l]) = 2
           /\ mergedOut.val[p][l][1].data["month"] > mergedOut.val[p][l][2].data["month"]

----------------------------------------------------------------------------
(* extract and __core_extraction                                           *)

\* A faulty iteration that may yield a Period twice and leave another out.
ItemOrdersWithRepeats(periods) == [1..Cardinality(periods) -> periods]

\* The orders in which merged_structures.items() may yield the Periods.
ItemOrders(periods) ==
    { order \in [1..Cardinality(periods) -> periods] : Range(order) = periods }

Raised(error) == [status |-> "raised", error |-> error, val |-> {}]
Returned(val) == [status |-> "returned", error |-> "", val |-> val]

\* The processes that run the tasks of the call: the pool's workers, or the caller.
Runs(p) == IF call.pool THEN p \in 1..call.nb_workers ELSE p = CallerProc

\* The call ends: its outcome is kept per worker count with the files it wrote.
EndCall(c, outcome, newLog) ==
    /\ call' = [c EXCEPT !.pc = outcome.status, !.outcome = outcome]
    /\ history' = [history EXCEPT ![c.nb_workers] =
                      [called |-> TRUE, outcome |-> outcome, written |-> newLog.written,
                       options |-> c.options]]

\* DataFrame.to_csv and fu.write_ndarray_to_hdf5: the file at the path is (re)written.
WriteFile(fsys, file_path, content) ==
    [fsys EXCEPT !.files = { f \in @ : f.path # file_path }
                               \cup {[path |-> file_path, content |-> content]}]

\* extract, lines 68-93: the structures are built and merged, the options fixed up, the
\* module-level variables assigned and the Periods handed to the loop or to the pool.
StartCall(workers) ==
    /\ call.pc \in {"idle", "returned", "raised"}
    /\ calls < MaxCalls
    /\ calls' = calls + 1
    /\ LET built == [l \in Labels |->
                        BuildBlocksStructure(tables[l], DbMetadataMapping, resolution)]
           c0 == [IdleCall EXCEPT !.nb_workers = workers, !.options = csvSaveOptions]
       IN  IF ~built[LabelOrder[1]].ok
           THEN /\ structures' = [l \in Labels |->
                                    IF l = LabelOrder[1] THEN built[l] ELSE NotBuilt]
                /\ mergedOut' = NotMerged
                /\ log' = EmptyLog
                /\ EndCall(c0, Raised(built[LabelOrder[1]].error), EmptyLog)
                /\ UNCHANGED globals
           ELSE /\ structures' = built
                /\ mergedOut' = [done |-> TRUE,
                                 val |-> MergeBlockStructures([l \in Labels |-> built[l].val])]
                /\ globals' = [assigned |-> TRUE, function |-> calls',
                               options |-> FixLineTerminator(csvSaveOptions)]
                /\ log' = [EmptyLog EXCEPT
                              !.invocations = [p \in DOMAIN mergedOut'.val |-> 0]]
                /\ \E order \in ItemOrders(DOMAIN mergedOut'.val) :
                     \E method \in IF UsesPool(workers) THEN StartMethods ELSE {"fork"} :
                       call' = [c0 EXCEPT !.pc = "running", !.pending = order,
                                          !.pool = UsesPool(workers),
                                          !.start_method = method]
                /\ UNCHANGED history
    /\ UNCHANGED <<scalarKeys, tables, resolution, callback, csvSaveOptions, fs, procs>>
    /\ UNCHANGED regionVars
    /\ UNCHANGED seriesVars

\* A task ends by raising: in the caller's loop the call raises at once, in the pool the
\* failure is kept for map to raise (the first one only).
TaskRaises(p, period, error, pendingLeft, newLog, newFs) ==
    LET failure == [error |-> error, period |-> period]
        logF == [newLog EXCEPT !.failed = @ \cup {failure}]
    IN  /\ procs' = [procs EXCEPT ![p] = IdleTask]
        /\ fs' = newFs
        /\ log' = logF
        /\ IF call.pool
           THEN /\ call' = [call EXCEPT
                              !.pending = pendingLeft,
                              !.results = (period :> [ok |-> FALSE, val |-> PyDict(<<>>)]) @@ @,
                              !.failure = IF @ = NoFailure THEN failure ELSE @]
                /\ UNCHANGED history
           ELSE EndCall([call EXCEPT !.pending = pendingLeft], Raised(error), logF)

\* A task ends by returning (period, result).
TaskReturns(p, period, result, newLog, newFs) ==
    /\ procs' = [procs EXCEPT ![p] = IdleTask]
    /\ fs' = newFs
    /\ log' = newLog
    /\ call' = IF call.pool
               THEN [call EXCEPT !.results = (period :> [ok |-> TRUE, val |-> result]) @@ @]
               ELSE [call EXCEPT !.tmp_bound = TRUE,
                                 !.tmp_result = PyTuple(<<PyPeriod(period), result>>)]
    /\ UNCHANGED history

\* __core_extraction, lines 100-103: a process takes the next item and calls the callback
\* held in the module-level variable.
BeginTask(p) ==
    /\ call.pc = "running"
    /\ Runs(p)
    /\ procs[p].stage = "idle"
    /\ call.pending # <<>>
    /\ LET period == Head(call.pending)
           extraction_metadata_blocks == mergedOut.val[period]
           seen == WorkerGlobals(call, globals)
           log0 == [log EXCEPT !.ranBy = @ \cup {<<period, p>>},
                               !.read = @ \cup {[unset |-> TRUE]}]
           log1 == [log EXCEPT !.invocations[period] = @ + 1,
                               !.ranBy = @ \cup {<<period, p>>},
                               !.read = @ \cup {[function |-> seen.function]}]
       IN  IF ~seen.assigned
           THEN TaskRaises(p, period, "NameError", Tail(call.pending), log0, fs)
           ELSE IF CallbackRaises(callback, period, extraction_metadata_blocks)
           THEN TaskRaises(p, period, "CallbackError", Tail(call.pending), log1, fs)
           ELSE /\ procs' = [procs EXCEPT ![p] =
                               [stage |-> "persist", period |-> period,
                                prefix |-> FilePrefixPath,
                                todo |-> PyIter(ExtractedDataBlocks(
                                            callback, period, extraction_metadata_blocks)),
                                result |-> <<>>]]
                /\ call' = [call EXCEPT !.pending = Tail(@)]
                /\ log' = log1
                /\ UNCHANGED <<fs, history>>
    /\ UNCHANGED <<scalarKeys, tables, resolution, structures, mergedOut, callback, csvSaveOptions,
                   globals, calls>>
    /\ UNCHANGED regionVars
    /\ UNCHANGED seriesVars

\* __core_extraction, lines 105-119: one iteration of the loop over extracted_data_blocks,
\* and the return of the task after the last one.
PersistLabel(p) ==
    /\ call.pc = "running"
    /\ Runs(p)
    /\ procs[p].stage = "persist"
    /\ LET t == procs[p]
           element == Head(t.todo)
       IN  IF PyLen(element) # 2
           THEN TaskRaises(p, t.period, "ValueError", call.pending, log, fs)
           ELSE
             LET label_id == PyIter(element)[1].str
                 data_block == PyIter(element)[2]
                 specific_label_file_prefix_path ==
                     SpecificLabelFilePrefixPath(t.prefix, label_id, t.period)
                 made == Makedirs(DirectoryToMake(t.prefix, label_id))
                 fs1 == [fs EXCEPT !.dirs = @ \cup made]
                 extraction_metadata_block_file_path ==
                     WithExtension(specific_label_file_prefix_path, CSV_FILE_EXTENSION)
                 data_block_file_path ==
                     WithExtension(specific_label_file_prefix_path, HDF5_FILE_EXTENSION)
                 log1 == [log EXCEPT
                            !.made = @ \cup made,
                            !.writeDirs = @ \cup {extraction_metadata_block_file_path.dir},
                            !.read = @ \cup {[options |-> WorkerGlobals(call, globals).options]}]
             IN  IF extraction_metadata_block_file_path.dir \notin fs1.dirs
                 THEN TaskRaises(p, t.period, "OSError", call.pending, log1, fs1)
                 ELSE
                   LET fs2 == WriteFile(fs1, extraction_metadata_block_file_path,
                                  [kind |-> "csv",
                                   rows |-> mergedOut.val[t.period][label_id],
                                   options |-> WorkerGlobals(call, globals).options])
                       fs3 == WriteFile(fs2, specific_label_file_prefix_path,
                                  [kind |-> "hdf5", values |-> data_block.values])
                       log2 == [log1 EXCEPT
                                  !.written = @ \cup
                                      { f \in fs3.files :
                                          f.path \in {extraction_metadata_block_file_path,
                                                      specific_label_file_prefix_path} }]
                       entry == PyDict(<< <<PyStr("data_block"), data_block_file_path>>,
                                          <<PyStr("metadata_block"),
                                            extraction_metadata_block_file_path>> >>)
                       result == SelectSeq(t.result, LAMBDA kv : kv[1] # PyStr(label_id))
                                 \o << <<PyStr(label_id), entry>> >>
                   IN  IF Tail(t.todo) = <<>>
                       THEN TaskReturns(p, t.period, PyDict(result), log2, fs3)
                       ELSE /\ procs' = [procs EXCEPT ![p] =
                                           [t EXCEPT !.todo = Tail(@), !.result = result]]
                            /\ fs' = fs3
                            /\ log' = log2
                            /\ UNCHANGED <<call, history>>
    /\ UNCHANGED <<scalarKeys, tables, resolution, structures, mergedOut, callback, csvSaveOptions,
                   globals, calls>>
    /\ UNCHANGED regionVars
    /\ UNCHANGED seriesVars

\* Lines 92-96 once the loop is over: dict(tmp_result) of the last task's tuple, or no
\* tmp_result at all when there was no Period.
SequentialOutcome(c) ==
    IF ~c.tmp_bound THEN Raised("UnboundLocalError")
    ELSE LET d == PyDictOf(PyIter(c.tmp_result))
         IN  IF d.ok THEN Returned(d.val) ELSE Raised(d.error)

ReturnSequential ==
    /\ call.pc = "running"
    /\ ~call.pool
    /\ call.pending = <<>>
    /\ procs[CallerProc].stage = "idle"
    /\ EndCall(call, SequentialOutcome(call), log)
    /\ UNCHANGED <<scalarKeys, tables, resolution, structures, mergedOut, callback, csvSaveOptions,
                   fs, globals, procs, log, calls>>
    /\ UNCHANGED regionVars
    /\ UNCHANGED seriesVars

\* A faulty map that returns the results of the tasks that succeeded.
PoolMapOutcomeSkipFailed(c, items) ==
    LET done == SelectSeq(items, LAMBDA period : period \in DOMAIN c.results
                                                   /\ c.results[period].ok)
    IN  Returned(PyDictOf([i \in 1..Len(done) |->
                    PyTuple(<<PyPeriod(done[i]), c.results[done[i]].val>>)]).val)

\* Lines 89-96: pool.map raises the first failure it was given; without failure it
\* returns the list of the tasks' results, of which dict() is returned.
PoolMapOutcome(c, items) ==
    IF c.failure # NoFailure THEN Raised(c.failure.error)
    ELSE LET d == PyDictOf([i \in 1..Len(items) |->
                      PyTuple(<<PyPeriod(items[i]), c.results[items[i]].val>>)])
         IN  IF d.ok THEN Returned(d.val) ELSE Raised(d.error)

\* A pool that is left by close() and join(): the workers go on with their tasks.
PoolExitJoin(ps) == ps

\* Line 89, leaving "with Pool(...) as pool": Pool.__exit__ calls terminate(), which stops
\* the workers at once; what they were doing is abandoned and queued items are dropped.
PoolExit(ps) == [p \in DOMAIN ps |-> IdleTask]

\* pool.map ends and the pool is left: once every task is done (Python 3.8 and later wait
\* for that), or as soon as a task has failed (Python 3.7).
PoolMapEnds ==
    /\ call.pc = "running"
    /\ call.pool
    /\ \/ call.failure # NoFailure
       \/ call.pending = <<>> /\ \A p \in ProcIds : procs[p].stage = "idle"
    /\ \E items \in ItemOrders(DOMAIN mergedOut.val) :
           EndCall(call, PoolMapOutcome(call, items), log)
    /\ procs' = PoolExit(procs)
    /\ UNCHANGED <<scalarKeys, tables, resolution, structures, mergedOut, callback, csvSaveOptions,
                   fs, globals, log, calls>>
    /\ UNCHANGED regionVars
    /\ UNCHANGED seriesVars

Init ==
    /\ tables \in SampleTables
    /\ resolution \in Resolutions
    /\ scalarKeys \in ScalarKeysChoices(resolution)
    /\ structures = [l \in Labels |-> NotBuilt]
    /\ mergedOut = NotMerged
    /\ RegionIdle
    /\ SeriesIdle
    /\ callback \in [returnsPairs : BOOLEAN, failMonth : SampleMonths \cup {NoMonth}]
    /\ csvSaveOptions \in CsvSaveOptionChoices
    /\ fs \in { [dirs |-> UNION { Makedirs(LabelDir(l)) : l \in made }, files |-> {}] :
                  made \in {{}, Labels} }
    /\ globals = UnsetGlobals
    /\ call = IdleCall
    /\ procs = [p \in ProcIds |-> IdleTask]
    /\ log = EmptyLog
    /\ history = [w \in 0..MaxWorkers |-> NoCall]
    /\ calls = 0

Next ==
    \/ \E workers \in 0..MaxWorkers : StartCall(workers)
    \/ \E p \in ProcIds : BeginTask(p)
    \/ \E p \in ProcIds : PersistLabel(p)
    \/ ReturnSequential
    \/ PoolMapEnds

Spec == Init /\ [][Next]_vars

----------------------------------------------------------------------------
(* Properties of extract.                                                  *)

\* The call to extract has ended, by returning or by raising.
CallEnded == call.pc \in {"returned", "raised"}

\* The Periods of the merged units of the call.
Periods == DOMAIN mergedOut.val

\* The value is a record of both file paths.
HoldsBothPaths(v) ==
    /\ DOMAIN v = {"dict"}
    /\ { v.dict[i][1] : i \in 1..Len(v.dict) } = {PyStr("data_block"), PyStr("metadata_block")}

\* The value maps every label of the Period's unit to a record of both file paths.
MapsEveryLabel(period, v) ==
    /\ DOMAIN v = {"dict"}
    /\ \A label_id \in DOMAIN mergedOut.val[period] :
           \E i \in 1..Len(v.dict) :
               /\ v.dict[i][1] = PyStr(label_id)
               /\ HoldsBothPaths(v.dict[i][2])

\* C1: a call to extract that returns, returns a mapping whose keys are exactly the
\* Periods of the merged units, each Period mapped to the labels the callback returned
\* for it, each label to a record of a metadata file path and a data file path; for any
\* worker count and any set of merged units.
C1_Original ==
    call.pc = "returned" =>
        /\ \A kv \in call.outcome.val :
               \E period \in Periods : kv.key = PyPeriod(period)
        /\ \A period \in Periods :
               \E kv \in call.outcome.val :
                   /\ kv.key = PyPeriod(period)
                   /\ MapsEveryLabel(period, kv.value)

C3_Original ==
    (history[0].called /\ history[1].called /\ history[0].options = history[1].options) =>
        /\ history[0].outcome = history[1].outcome
        /\ history[0].written = history[1].written

\* C6: when the callback or the persistence step has raised for a Period, the call to
\* extract ends by raising one of the failures of its tasks and returns no mapping, in
\* the loop and in the pool alike; a failed Period is not processed a second time.
C6_FailureTerminatesCall ==
    /\ \A failure \in log.failed : log.invocations[failure.period] <= 1
    /\ (CallEnded /\ log.failed # {}) =>
           /\ call.outcome.status = "raised"
           /\ call.outcome.val = {}
           /\ \E failure \in log.failed : call.outcome.error = failure.error

\* A call through the pool has raised the failure of one Period after another Period
\* was processed without failure.
C6_Witness ==
    /\ call.pc = "raised"
    /\ call.pool
    /\ log.failed # {}
    /\ \E period \in DOMAIN call.results : call.results[period].ok

\* C7 as stated: with a worker count of 0 or 1 the Periods are processed in the caller's
\* process and no pool is created; a pool is used only for a worker count of 2 or more.
C7_Original ==
    /\ call.nb_workers \in {0, 1} =>
           /\ ~call.pool
           /\ \A r \in log.ranBy : r[2] = CallerProc
    /\ call.pool => call.nb_workers >= 2

\* C7: with a worker count of 0 the Periods are processed one after the other in the
\* caller's process and no pool is created; with a worker count of 1 or more a pool of
\* that many processes is created and its workers process the Periods.
C7_PoolUnlessZeroWorkers ==
    /\ call.pool => call.nb_workers >= 1
    /\ (call.pc = "running" /\ call.nb_workers >= 1) => call.pool
    /\ \A r \in log.ranBy :
           IF call.nb_workers = 0 THEN r[2] = CallerProc ELSE r[2] \in 1..call.nb_workers
    /\ call.nb_workers = 0 => \A p \in ProcIds \ {CallerProc} : procs[p] = IdleTask

\* A call with one worker has returned what the worker of its pool processed.
C7_Witness ==
    /\ call.pc = "returned"
    /\ call.nb_workers = 1
    /\ call.pool
    /\ \E r \in log.ranBy : r[2] = 1

\* C8: starting from an output location without label directories, every directory the
\* dispatcher writes a metadata file or an array file into is a directory it has created
\* before the write.
C8_Original ==
    (\A label_id \in Labels : LabelDir(label_id) \notin fs.dirs \ log.made) =>
        log.writeDirs \subseteq log.made

C16_Original ==
    /\ call.pc = "running" =>
           /\ globals.assigned
           /\ globals.function = calls
           /\ globals.options = FixLineTerminator(call.options)
    /\ call.pc # "idle" => call.options = csvSaveOptions
    /\ log.read \subseteq {[function |-> calls],
                           [options |-> FixLineTerminator(csvSaveOptions)]}

\* The path recorded under a key of an entry of the returned mapping.
RecordedPath(entry, key) ==
    LET i == CHOOSE j \in 1..Len(entry.dict) : entry.dict[j][1] = PyStr(key)
    IN  entry.dict[i][2]

\* The (Period, label) entries of the returned mapping that hold both paths.
ReturnedEntries ==
    { e \in UNION { UNION { { [key |-> kv.key, label |-> kv.value.dict[i][1],
                               entry |-> kv.value.dict[i][2]] :
                              i \in 1..Len(kv.value.dict) } :
                            kv \in { x \in {y} : DOMAIN x.value = {"dict"} } } :
                    y \in call.outcome.val } :
        HoldsBothPaths(e.entry) }

\* C18: for every (Period, label) entry of the mapping a call has returned, the recorded
\* metadata path is the path of a metadata file the call wrote, the recorded data path is
\* the path the array was written to, the two differ, and no path is recorded twice.
C18_Original ==
    call.pc = "returned" =>
        /\ \A e \in ReturnedEntries :
               /\ \E f \in log.written :
                      /\ f.content.kind = "csv"
                      /\ f.path = RecordedPath(e.entry, "metadata_block")
               /\ \E f \in log.written :
                      /\ f.content.kind = "hdf5"
                      /\ f.path = RecordedPath(e.entry, "data_block")
               /\ RecordedPath(e.entry, "metadata_block") # RecordedPath(e.entry, "data_block")
        /\ \A e1, e2 \in ReturnedEntries :
               <<e1.key, e1.label>> # <<e2.key, e2.label>> =>
                   {RecordedPath(e1.entry, "metadata_block"), RecordedPath(e1.entry, "data_block")}
                   \cap {RecordedPath(e2.entry, "metadata_block"),
                         RecordedPath(e2.entry, "data_block")} = {}

----------------------------------------------------------------------------
(* src/time_series.py: an XarrayTimeSeries acquired in a scoped block, and  *)
(* ExtractionComputedVariable.                                              *)

\* The variables of the unit tests: msl is single-level, ta200 multi-level, wsl computed.
SingleLevelVariables == {"msl"}
MultiLevelVariables == {"ta200"}
ComputedVariables == {"wsl"}
SeriesVariables == SingleLevelVariables \cup MultiLevelVariables \cup ComputedVariables

\* The postfix expressions the computed variable may hold; the last one is malformed.
ComputedExpressions ==
    { <<"msl", "ta200", "+">>, <<"ta200", "ta200", "+">>, <<"msl", "ta200", "-">>,
      <<"msl", "+">> }

RpnOperators == {"+", "-"}

\* The time steps the opened files hold, and a time step they do not hold.
SeriesTimes == {<<2000, 10, 1, 0>>}
MissingTimes == {<<2000, 10, 1, 12>>}

\* The centres and the half-extent of the regions asked for, and the grid resolution.
SeriesCentres == { [lat |-> 0, lon |-> 3], [lat |-> 2, lon |-> 4] }
SeriesHalfFrame == 1
SeriesResolution == 1

\* The value of a variable's field at a time step and a grid point.
FieldValue(str_id, time_dict, latitude, longitude) ==
    (IF str_id = "msl" THEN 10000 ELSE 20000)
    + 100 * time_dict[4] + 10 * latitude + longitude

\* The arguments of extract_square_region after the variable.
SeriesParams ==
    [time_dict : SeriesTimes \cup MissingTimes, centre : SeriesCentres]

\* _extract_square_region on the dataset of the series: .sel raises KeyError for a time
\* step the dataset does not hold; otherwise the values of the selected grid points,
\* their coordinates dropped.
SeriesRegion(descending, str_id, params) ==
    IF params.time_dict \notin SeriesTimes
    THEN [ok |-> FALSE, error |-> "KeyError", values |-> <<>>]
    ELSE LET r == ExtractSquareRegionDirect(
                      [lat |-> params.centre.lat, lon |-> params.centre.lon,
                       half_lat_frame |-> SeriesHalfFrame, half_lon_frame |-> SeriesHalfFrame,
                       lat_resolution |-> SeriesResolution,
                       lon_resolution |-> SeriesResolution,
                       descending |-> descending, has_to_round |-> TRUE])
         IN  [ok |-> TRUE, error |-> "",
              values |-> [i \in 1..Len(r.latitude) |-> [j \in 1..Len(r.longitude) |->
                            FieldValue(str_id, params.time_dict,
                                       r.latitude[i], r.longitude[j])]]]

\* Element-wise arithmetic on two arrays of the same shape.
ArrayOp(operator, a, b) ==
    [i \in DOMAIN a |-> [j \in DOMAIN a[i] |->
        IF operator = "+" THEN a[i][j] + b[i][j] ELSE a[i][j] - b[i][j]]]

RECURSIVE RpnCompute(_, _, _)
\* XarrayRpnCalculator.compute: operands are pushed, an operator pops two operands and
\* pushes one result; the final stack must hold exactly one value.
RpnCompute(tokens, stack, mapping) ==
    IF tokens = <<>>
    THEN IF Len(stack) = 1 THEN [ok |-> TRUE, error |-> "", values |-> stack[1]]
         ELSE [ok |-> FALSE, error |-> "EvaluationError", values |-> <<>>]
    ELSE LET token == Head(tokens) IN
         IF token \in RpnOperators
         THEN IF Len(stack) < 2
              THEN [ok |-> FALSE, error |-> "EvaluationError", values |-> <<>>]
              ELSE RpnCompute(Tail(tokens),
                              SubSeq(stack, 1, Len(stack) - 2)
                                  \o <<ArrayOp(token, stack[Len(stack) - 1], stack[Len(stack)])>>,
                              mapping)
         ELSE IF token \notin DOMAIN mapping
              THEN [ok |-> FALSE, error |-> "EvaluationError", values |-> <<>>]
              ELSE RpnCompute(Tail(tokens), Append(stack, mapping[token].values), mapping)

\* The variables a computed variable's expression names, in the order ComputedVariable.accept
\* hands them to the visitor before it visits the computed variable itself.
Operands(expression) ==
    LET ids == SelectSeq(expression, LAMBDA token : token \notin RpnOperators)
    IN  SelectSeq([i \in 1..Len(ids) |->
                      IF \E j \in 1..(i - 1) : ids[j] = ids[i] THEN "" ELSE ids[i]],
                  LAMBDA id : id # "")

\* A faulty visitor that goes on with the mapping of the visitor before it.
ReusedVisitor(previous, evaluation, expression, params) ==
    [stage |-> "operands", evaluation |-> evaluation, expression |-> expression,
     params |-> params, todo |-> Operands(expression),
     data_array_mapping |-> previous.data_array_mapping, result |-> <<>>]

\* Lines 66-67 and 151-160: extract_square_region creates the visitor of one evaluation,
\* its mapping of resolved operands empty.
NewVisitor(previous, evaluation, expression, params) ==
    [stage |-> "operands", evaluation |-> evaluation, expression |-> expression,
     params |-> params, todo |-> Operands(expression),
     data_array_mapping |-> <<>>, result |-> <<>>]

\* A faulty visit that passes lon for lat and lat for lon.
VisitParamsSwapped(v) ==
    [v.params EXCEPT !.centre = [lat |-> v.params.centre.lon, lon |-> v.params.centre.lat]]

\* Lines 163-166: the operand is extracted with the visitor's own time key, lat, lon and
\* half-extents.
VisitParams(v) == v.params

\* self.dataset.close(): without a dataset attribute (opening had failed) the lookup
\* raises AttributeError; an open dataset is closed; closing a closed dataset is a no-op
\* or, with a strict backend, raises.
DatasetClose(s, strict) ==
    IF ~s.has_dataset THEN [raised |-> TRUE, open |-> FALSE]
    ELSE IF s.dataset_open THEN [raised |-> FALSE, open |-> FALSE]
    ELSE [raised |-> strict, open |-> FALSE]

\* A faulty close without the try/except around dataset.close().
CloseUnguarded(s, strict) ==
    LET attempt == DatasetClose(s, strict)
    IN  [s EXCEPT !.dataset_open = attempt.open, !.closes = @ + 1,
                  !.close_raised = @ \/ attempt.raised]

\* Lines 134-138, close: whatever dataset.close() raises is swallowed.
Close(s, strict) ==
    LET attempt == DatasetClose(s, strict)
    IN  [s EXCEPT !.dataset_open = attempt.open, !.closes = @ + 1]

\* A faulty __exit__ that closes only when the block ends without exception.
ExitUnlessException(s, how, strict) ==
    IF how = "exception" THEN [s EXCEPT !.pc = "left", !.exit = how]
    ELSE [Close(s, strict) EXCEPT !.pc = "left", !.exit = how]

\* Lines 143-144, __exit__: the block is left, whatever the way, through close.
Exit(s, how, strict) == [Close(s, strict) EXCEPT !.pc = "left", !.exit = how]

\* The scoped block of unit_test_extraction before its with statement.
InitSeries ==
    /\ series \in [pc : {"start"}, descending : BOOLEAN, expression : ComputedExpressions,
                   has_dataset : {FALSE}, dataset_open : {FALSE}, closes : {0},
                   close_raised : {FALSE}, exit : {"none"}, error : {""},
                   deleted : {FALSE}]
    /\ visitor = NoVisitor
    /\ trail = NoTrail
    /\ PartitionIdle
    /\ RegionIdle
    /\ DispatchIdle

\* Lines 20-48 and 140-141: the constructor opens the files and the block is entered,
\* or opening raises and the block is never entered.
OpenSeries ==
    /\ series.pc = "start"
    /\ \E opens \in BOOLEAN :
           series' = IF opens
                     THEN [series EXCEPT !.pc = "inside", !.has_dataset = TRUE,
                                         !.dataset_open = TRUE]
                     ELSE [series EXCEPT !.pc = "open_failed", !.error = "OSError"]
    /\ UNCHANGED <<visitor, trail>>
    /\ UNCHANGED <<partVars, regionVars, dispatchVars>>

\* An exception raised inside the block leaves it through __exit__, which does not
\* suppress it.
RaiseInBlock(error) ==
    \E strict \in BOOLEAN :
        series' = [Exit(series, "exception", strict) EXCEPT !.error = error]

\* One direct extraction on the series, as the trail keeps it.
Extraction(evaluation, str_id, params, r) ==
    [evaluation |-> evaluation, str_id |-> str_id, params |-> params,
     dataset_open |-> series.dataset_open, ok |-> r.ok]

\* extract_square_region, lines 54-74, called inside the block: a single-level or a
\* multi-level variable is extracted directly, a computed variable gets its visitor.
ExtractSquareRegionCall(str_id, params) ==
    /\ series.pc = "inside"
    /\ visitor.stage # "operands"
    /\ trail.requests < MaxExtractions
    /\ LET evaluation == trail.requests + 1 IN
       IF str_id \in ComputedVariables
       THEN /\ visitor' = NewVisitor(visitor, evaluation, series.expression, params)
            /\ trail' = [trail EXCEPT !.requests = evaluation]
            /\ UNCHANGED series
       ELSE LET r == SeriesRegion(series.descending, str_id, params)
                t == [trail EXCEPT
                        !.requests = evaluation,
                        !.extractions = Append(@, Extraction(evaluation, str_id, params, r))]
            IN  /\ UNCHANGED visitor
                /\ IF r.ok
                   THEN /\ trail' = [t EXCEPT !.results = Append(@,
                                        [evaluation |-> evaluation, str_id |-> str_id,
                                         params |-> params, values |-> r.values])]
                        /\ UNCHANGED series
                   ELSE /\ trail' = t
                        /\ RaiseInBlock(r.error)
    /\ UNCHANGED <<partVars, regionVars, dispatchVars>>

\* visit_SingleLevelVariable and visit_MultiLevelVariable, lines 162-170: the next operand
\* is extracted from the series and entered in the mapping under its identifier.
VisitSingleLevelVariable ==
    /\ series.pc = "inside"
    /\ visitor.stage = "operands"
    /\ visitor.todo # <<>>
    /\ LET str_id == Head(visitor.todo)
           params == VisitParams(visitor)
           r == SeriesRegion(series.descending, str_id, params)
       IN  /\ trail' = [trail EXCEPT !.extractions =
                           Append(@, Extraction(visitor.evaluation, str_id, params, r))]
           /\ IF r.ok
              THEN /\ visitor' = [visitor EXCEPT
                         !.todo = Tail(@),
                         !.data_array_mapping =
                             (str_id :> [values |-> r.values,
                                         extraction |-> Len(trail'.extractions)])
                             @@ @]
                   /\ UNCHANGED series
              ELSE /\ visitor' = [visitor EXCEPT !.stage = "failed"]
                   /\ RaiseInBlock(r.error)
    /\ UNCHANGED <<partVars, regionVars, dispatchVars>>

\* visit_ComputedVariable, lines 172-176, and the return of extract_square_region: the
\* calculator evaluates the expression over the mapping.
VisitComputedVariable ==
    /\ series.pc = "inside"
    /\ visitor.stage = "operands"
    /\ visitor.todo = <<>>
    /\ LET r == RpnCompute(visitor.expression, <<>>, visitor.data_array_mapping) IN
       IF r.ok
       THEN /\ visitor' = [visitor EXCEPT !.stage = "computed", !.result = r.values]
            /\ trail' = [trail EXCEPT !.results = Append(@,
                            [evaluation |-> visitor.evaluation,
                             str_id |-> CHOOSE v \in ComputedVariables : TRUE,
                             params |-> visitor.params, values |-> r.values])]
            /\ UNCHANGED series
       ELSE /\ visitor' = [visitor EXCEPT !.stage = "failed"]
            /\ RaiseInBlock(r.error)
            /\ UNCHANGED trail
    /\ UNCHANGED <<partVars, regionVars, dispatchVars>>

\* The block ends by reaching its end or by a return statement (line 279).
LeaveBlock(how) ==
    /\ series.pc = "inside"
    /\ visitor.stage # "operands"
    /\ \E strict \in BOOLEAN : series' = Exit(series, how, strict)
    /\ UNCHANGED <<visitor, trail>>
    /\ UNCHANGED <<partVars, regionVars, dispatchVars>>

\* Lines 146-147, __del__: the object is collected once the block is left or opening has
\* failed, and closes again.
Del ==
    /\ series.pc \in {"left", "open_failed"}
    /\ ~series.deleted
    /\ \E strict \in BOOLEAN : series' = [Close(series, strict) EXCEPT !.deleted = TRUE]
    /\ UNCHANGED <<visitor, trail>>
    /\ UNCHANGED <<partVars, regionVars, dispatchVars>>

NextSeries ==
    \/ OpenSeries
    \/ \E str_id \in SeriesVariables, params \in SeriesParams :
           ExtractSquareRegionCall(str_id, params)
    \/ VisitSingleLevelVariable
    \/ VisitComputedVariable
    \/ \E how \in {"normal", "return"} : LeaveBlock(how)
    \/ Del

SpecSeries == InitSeries /\ [][NextSeries]_vars

----------------------------------------------------------------------------
(* Properties of the time series and of the computed-variable evaluator     *)
(* (SpecSeries).                                                            *)

\* C11: a time series acquired in a scoped block has its dataset closed once the block
\* is left, whether by reaching its end, by a return or by an exception of an extraction;
\* every extraction of the block ran on the open dataset; and close has never raised,
\* not when called again by __del__ nor when opening had failed.
C11_ClosedOnEveryExit ==
    /\ series.pc = "left" => (~series.dataset_open /\ series.closes >= 1)
    /\ \A i \in 1..Len(trail.extractions) : trail.extractions[i].dataset_open
    /\ ~series.close_raised

\* A block left by the exception of an extraction, its series closed by __exit__ and
\* again by __del__.
C11_Witness ==
    /\ series.pc = "left"
    /\ series.exit = "exception"
    /\ series.deleted
    /\ series.closes = 2
    /\ Len(trail.extractions) >= 1

\* The expression is "A B +" over two single-level or multi-level variables.
IsSumOfTwo(expression) ==
    /\ Len(expression) = 3
    /\ expression[1] \notin RpnOperators
    /\ expression[2] \notin RpnOperators
    /\ expression[3] = "+"

\* C12: the evaluation of a computed variable whose expression is "A B +" returns the
\* element-wise sum of the region of A and the region of B, both extracted with the
\* evaluation's own time key, lat, lon and half-extents; and when the expression is
\* evaluated every operand it names has been extracted in this evaluation and entered
\* in the mapping.
C12_SumOfOperandRegions ==
    /\ \A i \in 1..Len(trail.results) :
           LET r == trail.results[i] IN
           (r.str_id \in ComputedVariables /\ IsSumOfTwo(series.expression)) =>
               r.values = ArrayOp("+",
                   SeriesRegion(series.descending, series.expression[1], r.params).values,
                   SeriesRegion(series.descending, series.expression[2], r.params).values)
    /\ visitor.stage = "computed" =>
           \A token \in Range(visitor.expression) \ RpnOperators :
               /\ token \in DOMAIN visitor.data_array_mapping
               /\ \E k \in 1..Len(trail.extractions) :
                      /\ trail.extractions[k].evaluation = visitor.evaluation
                      /\ trail.extractions[k].str_id = token
                      /\ trail.extractions[k].params = visitor.params
                      /\ trail.extractions[k].ok

\* "msl ta200 +" has been evaluated on a descending grid away from the first centre.
C12_Witness ==
    /\ visitor.stage = "computed"
    /\ series.descending
    /\ series.expression = <<"msl", "ta200", "+">>
    /\ visitor.params.centre = [lat |-> 2, lon |-> 4]
    /\ Len(visitor.result) = 2
    /\ visitor.result[1][1] = FieldValue("msl", visitor.params.time_dict, 3, 3)
                              + FieldValue("ta200", visitor.params.time_dict, 3, 3)

\* C17: the mapping of resolved operands belongs to one evaluation: it is empty when the
\* evaluation starts, and every region it holds at any time was extracted in the
\* evaluation under way, with that evaluation's arguments.
C17_MappingOfOneEvaluation ==
    \A str_id \in DOMAIN visitor.data_array_mapping :
        LET e == trail.extractions[visitor.data_array_mapping[str_id].extraction]
        IN  /\ e.evaluation = visitor.evaluation
            /\ e.params = visitor.params
            /\ e.str_id = str_id

\* A second evaluation on the same series, at another centre than the first, has its
\* operands resolved.
C17_Witness ==
    /\ visitor.stage = "computed"
    /\ visitor.evaluation = 2
    /\ \E i \in 1..Len(trail.results) :
           /\ trail.results[i].str_id \in ComputedVariables
           /\ trail.results[i].evaluation = 1
           /\ trail.results[i].params # visitor.params

====
